---- MODULE Spec2Model ----
(***************************************************************************)
(* Weather service (src/main.go): one HTTP endpoint, /weather.             *)
(*   GET /weather?city=<name>   getWeatherHandler: FindOne by city          *)
(*   PUT /weather {"city": ..}  putWeatherHandler: http.Get to the provider,*)
(*                              then UpdateOne(filter city, $set, upsert)   *)
(* net/http runs every request in its own goroutine; a handler is split    *)
(* here exactly at the points where it waits on I/O (the provider call and *)
(* the store operations).  Temperatures are in hundredths of a degree.     *)
(***************************************************************************)
EXTENDS Integers, Sequences, FiniteSets, TLC

\* ---------------------------------------------------------------- bounds
\* time.Now() reads a clock that runs from 0 to MaxClock.
MaxClock == 1

\* Request goroutines that may be in flight together (slots are reused).
Reqs == {"r1", "r2"}

\* ------------------------------------------------------ program constants
StatusOK == 200
StatusBadRequest == 400
StatusNotFound == 404
StatusMethodNotAllowed == 405
StatusInternalServerError == 500
\* 273.15, in hundredths
KelvinOffset == 27315

\* ------------------------------------------------------------ input sets
\* The caller's city in GET's query: "" is an absent or empty parameter,
\* "paris" a spelling that differs from the provider's canonical "Paris".
Queries == {"", "Paris", "paris"}
\* PUT request bodies: not JSON, or {"city": c} (c = "" when the key is absent).
Bodies == {"malformed", "", "paris"}
Methods == {"GET", "PUT", "POST"}

\* type weatherjson: the bodies the provider answers with.  Temperatures
\* are main.temp in hundredths of a Kelvin (300.00 K, 280.00 K); a missing
\* or empty name unmarshals to "", a missing conditions list to << >>.
WeatherJsons ==
    {[name |-> "Paris", temp |-> 30000,
      weather |-> <<[description |-> "clear sky"]>>],
     [name |-> "Paris", temp |-> 28000,
      weather |-> <<[description |-> "rain"], [description |-> "clear sky"]>>],
     [name |-> "", temp |-> 30000,
      weather |-> <<[description |-> "clear sky"]>>],
     [name |-> "Paris", temp |-> 30000, weather |-> << >>]}

\* The provider's canonical names.
Names == {j.name : j \in WeatherJsons}

NoJson == [name |-> "", weather |-> << >>, temp |-> 0]

\* What the outbound http.Get can come back with:
\*   transport: http.Get returned an error
\*   status:    a response whose StatusCode is not 200
\*   malformed: a 200 response whose body json.Unmarshal rejects
\*   json:      a 200 response whose body unmarshals into `json`
ProviderAnswers ==
    {[kind |-> k, json |-> NoJson] : k \in {"transport", "status", "malformed"}}
    \cup {[kind |-> "json", json |-> j] : j \in WeatherJsons}

\* type WeatherData, and its Go zero value
ZeroWeather == [city |-> "", description |-> "", temp |-> 0, last_updated |-> 0]

NoResp == [status |-> 0, msg |-> "", body |-> ZeroWeather]

\* A store operation answers, or fails (its 10 s context expires, the
\* connection is lost).
StoreOutcomes == {"ok", "timeout"}

NoPut == [done |-> FALSE, json |-> NoJson, rec |-> ZeroWeather]

VARIABLES
    store,        \* the weather collection, documents in natural (insertion) order
    clock,        \* the wall clock time.Now() reads
    pc,           \* where each request goroutine stands
    method,       \* r.Method
    city,         \* the handler's local `city`
    api,          \* the handler's local `weatherAPIResponse`
    weatherData,  \* the handler's local `weatherData` / `weather`
    err,          \* the handler's local `err` after a store operation
    result,       \* what UpdateOne returned: "matched" or "upserted" ("": nothing yet)
    resp,         \* what was written to the http.ResponseWriter
    nGet,         \* outbound provider calls made by the request
    nQuery,       \* store queries (FindOne) issued by the request
    nWrite,       \* store writes applied for the request
    lastPut,      \* per canonical name: the last completed upsert (provider body, record)
    lastName      \* the canonical name of the last completed upsert ("-": none yet)

vars == <<store, clock, pc, method, city, api, weatherData, err, result, resp,
          nGet, nQuery, nWrite, lastPut, lastName>>

\* ------------------------------------------------------------ pure parts

\* Temp: weatherAPIResponse.Main.Temp - 273.15
KelvinToCelsius(k) == k - KelvinOffset

\* time.Now()
Now == clock

\* Indices of the documents matching bson.M{"city": c}
Matches(c) == {i \in 1..Len(store) : store[i].city = c}

\* The first matching document in natural order: what FindOne returns and
\* what UpdateOne modifies.
FirstMatch(c) == CHOOSE i \in Matches(c) : \A j \in Matches(c) : i <= j

HttpError(message, code) == [status |-> code, msg |-> message, body |-> ZeroWeather]

JsonBody(code, w) == [status |-> code, msg |-> "", body |-> w]

Init ==
    /\ store = << >>
    /\ clock = 0
    /\ pc = [r \in Reqs |-> "idle"]
    /\ method = [r \in Reqs |-> ""]
    /\ city = [r \in Reqs |-> ""]
    /\ api = [r \in Reqs |-> NoJson]
    /\ weatherData = [r \in Reqs |-> ZeroWeather]
    /\ err = [r \in Reqs |-> "nil"]
    /\ result = [r \in Reqs |-> ""]
    /\ resp = [r \in Reqs |-> NoResp]
    /\ nGet = [r \in Reqs |-> 0]
    /\ nQuery = [r \in Reqs |-> 0]
    /\ nWrite = [r \in Reqs |-> 0]
    /\ lastPut = [n \in Names |-> NoPut]
    /\ lastName = "-"

\* ------------------------------------------------------- handler pieces

\* http.ResponseWriter: the first status written stands; a later
\* WriteHeader on the same response is ignored.
Respond(old, new) == IF old.status # 0 THEN old ELSE new

\* Mutant of QueryCityMissing: the check for an empty city is dropped.
QueryCityNeverMissing(q) == FALSE

\* getWeatherHandler: `if city == ""`
QueryCityMissing(q) == q = ""

\* putWeatherHandler: the message of the early return taken on the decoded
\* request body, "" when the handler goes on to the provider call.
BodyFailure(b) ==
    IF b = "malformed" THEN "Invalid request body"
    ELSE IF b = "" THEN "City is required"
    ELSE ""

\* putWeatherHandler: the message of the early return taken on the
\* provider's answer, "" when the handler goes on to build the record.
FetchFailure(a) ==
    CASE a.kind = "transport" -> "Failed to fetch weather data"
      [] a.kind = "status"    -> "Failed to fetch weather data from API"
      [] a.kind = "malformed" -> "Failed to parse weather data"
      [] OTHER                -> ""

\* Mutant of AfterFetch: the early returns after the provider call are
\* missing, so a failed fetch falls through to the upsert.
AfterFetchNoReturn(a) ==
    IF FetchFailure(a) = "" /\ Len(a.json.weather) = 0 THEN "panicked"
    ELSE "updateOne"

\* putWeatherHandler: where the handler stands after the provider's answer.
\* Weather[0] on an empty list is an index-out-of-range panic: net/http
\* recovers it and drops the connection without writing a response.
AfterFetch(a) ==
    IF FetchFailure(a) # "" THEN "done"
    ELSE IF Len(a.json.weather) = 0 THEN "panicked"
    ELSE "updateOne"

\* putWeatherHandler: "Prepare the data for MongoDB"
MakeWeatherData(j) ==
    [city        |-> j.name,
     description |-> j.weather[1].description,
     temp        |-> KelvinToCelsius(j.temp),
     last_updated |-> Now]

\* Mutant of FilterMatches: the filter misses the stored documents (say it
\* names another field), so every upsert inserts.
FilterMatchesNothing(c) == {}

\* The documents UpdateOne's filter bson.M{"city": c} selects.
FilterMatches(c) == Matches(c)

\* bson.M{"$set": weatherData} applied to a matched document
SetFields(old, w) == w

\* ------------------------------------------------------------- actions

\* The wall clock advances.
Tick ==
    /\ clock < MaxClock
    /\ clock' = clock + 1
    /\ UNCHANGED <<store, pc, method, city, api, weatherData, err, result, resp,
                   nGet, nQuery, nWrite, lastPut, lastName>>

\* main's HandleFunc, default case: any method but GET and PUT.
MethodNotAllowed(r, m) ==
    /\ pc[r] = "idle"
    /\ m \notin {"GET", "PUT"}
    /\ method' = [method EXCEPT ![r] = m]
    /\ resp' = [resp EXCEPT ![r] =
                   Respond(@, HttpError("Method not allowed", StatusMethodNotAllowed))]
    /\ pc' = [pc EXCEPT ![r] = "done"]
    /\ UNCHANGED <<store, clock, city, api, weatherData, err, result,
                   nGet, nQuery, nWrite, lastPut, lastName>>

\* GET /weather?city=q: getWeatherHandler up to the FindOne call.
GetWeatherHandler(r, q) ==
    /\ pc[r] = "idle"
    /\ method' = [method EXCEPT ![r] = "GET"]
    /\ city' = [city EXCEPT ![r] = q]
    /\ IF QueryCityMissing(q)
       THEN /\ resp' = [resp EXCEPT ![r] =
                   Respond(@, HttpError("City parameter is required", StatusBadRequest))]
            /\ pc' = [pc EXCEPT ![r] = "done"]
            /\ UNCHANGED nQuery
       ELSE /\ pc' = [pc EXCEPT ![r] = "findOne"]
            /\ nQuery' = [nQuery EXCEPT ![r] = @ + 1]
            /\ UNCHANGED resp
    /\ UNCHANGED <<store, clock, api, weatherData, err, result, nGet, nWrite,
                   lastPut, lastName>>

\* getWeatherHandler from FindOne(...).Decode(&weather) to the response.
FindOne(r, outcome) ==
    /\ pc[r] = "findOne"
    /\ LET e == IF outcome # "ok" THEN "timeout"
                ELSE IF Matches(city[r]) = {} THEN "ErrNoDocuments"
                ELSE "nil"
           w == IF e = "nil" THEN store[FirstMatch(city[r])] ELSE ZeroWeather
       IN /\ err' = [err EXCEPT ![r] = e]
          /\ weatherData' = [weatherData EXCEPT ![r] = w]
          /\ resp' = [resp EXCEPT ![r] =
                 IF e # "nil"
                 THEN Respond(@, HttpError("Weather data not found", StatusNotFound))
                 ELSE Respond(@, JsonBody(StatusOK, w))]
    /\ pc' = [pc EXCEPT ![r] = "done"]
    /\ UNCHANGED <<store, clock, method, city, api, result, nGet, nQuery, nWrite,
                   lastPut, lastName>>

\* PUT /weather with body b: putWeatherHandler up to the http.Get call.
PutWeatherHandler(r, b) ==
    /\ pc[r] = "idle"
    /\ method' = [method EXCEPT ![r] = "PUT"]
    /\ IF BodyFailure(b) # ""
       THEN /\ resp' = [resp EXCEPT ![r] =
                   Respond(@, HttpError(BodyFailure(b), StatusBadRequest))]
            /\ pc' = [pc EXCEPT ![r] = "done"]
            /\ UNCHANGED <<city, nGet>>
       ELSE /\ city' = [city EXCEPT ![r] = b]
            /\ pc' = [pc EXCEPT ![r] = "httpGet"]
            /\ nGet' = [nGet EXCEPT ![r] = @ + 1]
            /\ UNCHANGED resp
    /\ UNCHANGED <<store, clock, api, weatherData, err, result, nQuery, nWrite,
                   lastPut, lastName>>

\* putWeatherHandler from the return of http.Get to the UpdateOne call.
HttpGetReturns(r, a) ==
    /\ pc[r] = "httpGet"
    /\ pc' = [pc EXCEPT ![r] = AfterFetch(a)]
    /\ resp' = [resp EXCEPT ![r] =
           IF FetchFailure(a) # ""
           THEN Respond(@, HttpError(FetchFailure(a), StatusInternalServerError))
           ELSE @]
    /\ api' = [api EXCEPT ![r] = IF a.kind = "json" THEN a.json ELSE @]
    /\ weatherData' = [weatherData EXCEPT ![r] =
           IF FetchFailure(a) = "" /\ Len(a.json.weather) > 0
           THEN MakeWeatherData(a.json) ELSE @]
    /\ UNCHANGED <<store, clock, method, city, err, result, nGet, nQuery, nWrite,
                   lastPut, lastName>>

\* The upsert has been applied for request r: the handler's 200 response.
Stored(r, how) ==
    /\ result' = [result EXCEPT ![r] = how]
    /\ nWrite' = [nWrite EXCEPT ![r] = @ + 1]
    /\ lastPut' = [lastPut EXCEPT ![weatherData[r].city] =
                      [done |-> TRUE, json |-> api[r], rec |-> weatherData[r]]]
    /\ lastName' = weatherData[r].city
    /\ err' = [err EXCEPT ![r] = "nil"]
    /\ resp' = [resp EXCEPT ![r] = Respond(@, JsonBody(StatusOK, weatherData[r]))]
    /\ pc' = [pc EXCEPT ![r] = "done"]

\* UpdateOne(ctx, filter, update, upsert): the store looks for a document
\* matching the filter and updates the first one.  With none, the upsert
\* goes on to insert; the collection has no unique index on city, so the
\* store does not make the look-up and the insert one atomic step.
UpdateOne(r, outcome) ==
    /\ pc[r] = "updateOne"
    /\ IF outcome # "ok"
       THEN /\ err' = [err EXCEPT ![r] = "timeout"]
            /\ resp' = [resp EXCEPT ![r] =
                   Respond(@, HttpError("Failed to update weather data",
                                        StatusInternalServerError))]
            /\ pc' = [pc EXCEPT ![r] = "done"]
            /\ UNCHANGED <<store, result, nWrite, lastPut, lastName>>
       ELSE IF FilterMatches(weatherData[r].city) # {}
       THEN /\ LET i == CHOOSE k \in FilterMatches(weatherData[r].city) :
                            \A j \in FilterMatches(weatherData[r].city) : k <= j
               IN store' = [store EXCEPT ![i] = SetFields(@, weatherData[r])]
            /\ Stored(r, "matched")
       ELSE /\ pc' = [pc EXCEPT ![r] = "insert"]
            /\ UNCHANGED <<store, err, result, resp, nWrite, lastPut, lastName>>
    /\ UNCHANGED <<clock, method, city, api, weatherData, nGet, nQuery>>

\* The insert half of an upsert that matched nothing.
UpsertInsert(r) ==
    /\ pc[r] = "insert"
    /\ store' = Append(store, weatherData[r])
    /\ Stored(r, "upserted")
    /\ UNCHANGED <<clock, method, city, api, weatherData, nGet, nQuery>>

\* The request is over (answered, or its connection dropped after a
\* panic); the slot serves the next request.
Finish(r) ==
    /\ pc[r] \in {"done", "panicked"}
    /\ pc' = [pc EXCEPT ![r] = "idle"]
    /\ method' = [method EXCEPT ![r] = ""]
    /\ city' = [city EXCEPT ![r] = ""]
    /\ api' = [api EXCEPT ![r] = NoJson]
    /\ weatherData' = [weatherData EXCEPT ![r] = ZeroWeather]
    /\ err' = [err EXCEPT ![r] = "nil"]
    /\ result' = [result EXCEPT ![r] = ""]
    /\ resp' = [resp EXCEPT ![r] = NoResp]
    /\ nGet' = [nGet EXCEPT ![r] = 0]
    /\ nQuery' = [nQuery EXCEPT ![r] = 0]
    /\ nWrite' = [nWrite EXCEPT ![r] = 0]
    /\ UNCHANGED <<store, clock, lastPut, lastName>>

\* A new request is accepted.
Accept(r) ==
    \/ \E m \in Methods : MethodNotAllowed(r, m)
    \/ \E q \in Queries : GetWeatherHandler(r, q)
    \/ \E b \in Bodies : PutWeatherHandler(r, b)

\* A request in flight takes its next step.
Step(r) ==
    \/ \E o \in StoreOutcomes : FindOne(r, o)
    \/ \E a \in ProviderAnswers : HttpGetReturns(r, a)
    \/ \E o \in StoreOutcomes : UpdateOne(r, o)
    \/ UpsertInsert(r)
    \/ Finish(r)

\* Requests are handled concurrently, one goroutine each.
Next ==
    \/ Tick
    \/ \E r \in Reqs : Accept(r)
    \/ \E r \in Reqs : Step(r)

Spec == Init /\ [][Next]_vars

\* Requests issued one after another: a request is sent only when every
\* earlier one is over.
AllIdle == \A r \in Reqs : pc[r] = "idle"

SeqNext ==
    \/ Tick
    \/ \E r \in Reqs, m \in Methods : AllIdle /\ MethodNotAllowed(r, m)
    \/ \E r \in Reqs, q \in Queries : AllIdle /\ GetWeatherHandler(r, q)
    \/ \E r \in Reqs, b \in Bodies : AllIdle /\ PutWeatherHandler(r, b)
    \/ \E r \in Reqs : Step(r)

SeqSpec == Init /\ [][SeqNext]_vars

\* What the runtime guarantees: a runnable goroutine runs, and a store
\* operation ends (it answers or its 10 s context expires).  http.Get is
\* called on http.DefaultClient, which sets no timeout: nothing makes the
\* provider's answer arrive.
FairSpec ==
    /\ Init /\ [][Next]_vars
    /\ \A r \in Reqs : WF_vars(\E o \in StoreOutcomes : FindOne(r, o))
    /\ \A r \in Reqs : WF_vars(\E o \in StoreOutcomes : UpdateOne(r, o))
    /\ \A r \in Reqs : WF_vars(UpsertInsert(r))
    /\ \A r \in Reqs : WF_vars(Finish(r))

\* ------------------------------------------------------------- claims

\* The record reads of city n return.
StoredRecord(n) == store[FirstMatch(n)]

\* C1: a successful fetch-and-store followed (no write in between) by
\* retrieve-stored(n), n the provider's canonical name of that write,
\* succeeds and returns city n, the first conditions entry and the Kelvin
\* value minus 273.15 of the provider's answer.  (Requests run one after
\* another; a read the store failed to answer is left out.)
ReadAfterWrite ==
    \A r \in Reqs :
        (/\ pc[r] = "done" /\ method[r] = "GET"
         /\ lastName # "-" /\ city[r] = lastName
         /\ err[r] # "timeout")
        => /\ resp[r].status = StatusOK
           /\ resp[r].body.city = lastName
           /\ resp[r].body.description = lastPut[lastName].json.weather[1].description
           /\ resp[r].body.temp = lastPut[lastName].json.temp - KelvinOffset

\* C2: when the provider answers 200 with a well-formed body whose
\* conditions list is empty, the request ends with a 500 response: no
\* crash, no store write.
EmptyConditionsRejected ==
    \A r \in Reqs :
        (api[r] \in WeatherJsons /\ Len(api[r].weather) = 0)
        => /\ pc[r] = "done"
           /\ resp[r].status = StatusInternalServerError
           /\ nWrite[r] = 0

\* C3: after one or more successful fetch-and-store calls, run one after
\* another, whose provider answers carry the canonical name n, the store
\* holds exactly one record with city n, and its description and
\* temperature are those of the last call.
OverwriteNotDuplicate ==
    \A n \in Names :
        lastPut[n].done
        => /\ Cardinality(Matches(n)) = 1
           /\ StoredRecord(n).description = lastPut[n].json.weather[1].description
           /\ StoredRecord(n).temp = lastPut[n].json.temp - KelvinOffset

\* C3 witness: a second write for Paris has matched the stored record and
\* replaced a clear sky at 26.85 by rain at 6.85.
OverwriteWitness ==
    \E r \in Reqs :
        /\ pc[r] = "done" /\ method[r] = "PUT" /\ result[r] = "matched"
        /\ resp[r].status = StatusOK
        /\ Len(store) = 1
        /\ store[1].city = "Paris" /\ store[1].description = "rain"
        /\ store[1].temp = 685

\* The canonical names that are a city's name.
CityNames == Names \ {""}

\* C4: at most one stored record per city, in every state, whatever the
\* interleaving of concurrent fetch-and-store requests.
OneRecordPerCity == \A n \in CityNames : Cardinality(Matches(n)) <= 1

\* C5: retrieve-stored with an empty or absent city ends with 400 and
\* issues no query to the store.
EmptyCityIsInvalidInput ==
    \A r \in Reqs :
        (method[r] = "GET" /\ city[r] = "")
        => /\ pc[r] = "done"
           /\ resp[r].status = StatusBadRequest
           /\ nQuery[r] = 0

\* C5 witness: an empty-city read answered while the store holds records
\* and another request is waiting on the store.
EmptyCityWitness ==
    \E r \in Reqs :
        /\ pc[r] = "done" /\ method[r] = "GET" /\ city[r] = ""
        /\ resp[r].msg = "City parameter is required"
        /\ Len(store) > 0
        /\ \E o \in Reqs : pc[o] = "findOne"

\* C6: retrieve-stored with a non-empty city answers 404 exactly when the
\* store holds no record for it; a store read that fails or times out is
\* answered 500.
NotFoundOnlyWhenAbsent ==
    \A r \in Reqs :
        (pc[r] = "done" /\ method[r] = "GET" /\ city[r] # "")
        => /\ resp[r].status = StatusNotFound <=> err[r] = "ErrNoDocuments"
           /\ err[r] = "timeout" => resp[r].status = StatusInternalServerError

\* The messages of the early returns before the store write.
PreWriteFailures ==
    {"Invalid request body", "City is required", "Failed to fetch weather data",
     "Failed to fetch weather data from API", "Failed to parse weather data"}

\* C7: a fetch-and-store that fails before the store write writes nothing,
\* and every request makes at most one provider call and one store write;
\* the store changes only in the step that applies the upsert of a request
\* that has not failed.
EarlyFailureWritesNothing ==
    /\ [](\A r \in Reqs :
            /\ nGet[r] <= 1
            /\ nWrite[r] <= 1
            /\ resp[r].msg \in PreWriteFailures => nWrite[r] = 0)
    /\ [][store' # store =>
            \E r \in Reqs :
                /\ pc[r] \in {"updateOne", "insert"}
                /\ resp[r].status = 0
                /\ nWrite[r] = 0 /\ nWrite'[r] = 1
                /\ pc'[r] = "done"]_vars

\* C7 witness: a request whose provider call failed has ended, one call
\* made, nothing written, beside a store that holds a record.
EarlyFailureWitness ==
    \E r \in Reqs :
        /\ pc[r] = "done" /\ method[r] = "PUT"
        /\ resp[r].msg = "Failed to fetch weather data from API"
        /\ nGet[r] = 1 /\ nWrite[r] = 0
        /\ Len(store) > 0

\* C8: the outbound provider call of a fetch-and-store request always ends
\* (with an answer or a timeout-class error): no request waits forever.
ProviderCallEnds ==
    \A r \in Reqs : (pc[r] = "httpGet") ~> (pc[r] # "httpGet")

\* C9: the stored lastUpdated of a city is that of the most recent
\* successful fetch, also under concurrent requests for the city: it never
\* moves backwards.
LastUpdatedNeverBackwards ==
    [][\A n \in CityNames :
          (Matches(n) # {} /\ Matches(n)' # {})
          => StoredRecord(n)'.last_updated >= StoredRecord(n).last_updated]_vars

\* C10: every stored record has a non-empty city.
StoredCityNonEmpty == \A i \in 1..Len(store) : store[i].city # ""

====
